---- MODULE Spec2Model ----
(***************************************************************************)
(* BSP Memory Management Unit of the Raspberry Pi kernel                   *)
(* (bsp/raspberrypi/memory/mmu.rs): the page descriptors of the three      *)
(* kernel image regions, kernel_map_binary(), phys_addr_space_end_page()   *)
(* and the two layout unit tests.                                          *)
(*                                                                         *)
(* The linker-provided start addresses and sizes are inputs; they are      *)
(* drawn from bounded sets that contain aligned and unaligned addresses,   *)
(* granule multiples, zero and non-multiples.  Addresses are plain         *)
(* integers far below the 64-bit usize range, so no wrap-around occurs.    *)
(***************************************************************************)
EXTENDS Integers, Sequences, FiniteSets

VARIABLES
    layout,       \* linker symbols: start address and size of stack, ro, data
    pc,           \* position of kernel_map_binary()
    KERNEL_TABLES,\* the kernel translation tables: virt page addr -> entry
    calls,        \* calls made to generic_mmu::kernel_map_pages_at, in order
    result,       \* return value of kernel_map_binary()
    testAligned,  \* outcome of tests::virt_mem_layout_sections_are_64KiB_aligned
    testOverlaps, \* outcome of tests::virt_mem_layout_has_no_overlaps
    physEnd,      \* super::phys_addr_space_end()
    endPage       \* value returned by phys_addr_space_end_page()

vars == <<layout, pc, KERNEL_TABLES, calls, result, testAligned, testOverlaps,
          physEnd, endPage>>

----------------------------------------------------------------------------
(* Bounds of the model *)

MaxStartPage == 4
MaxSizePages == 3
MaxEndPage == 15

----------------------------------------------------------------------------
(* Granule parameters *)

RECURSIVE Pow2(_)
Pow2(n) == IF n = 0 THEN 1 ELSE 2 * Pow2(n - 1)

RECURSIVE TrailingZeros(_)
TrailingZeros(n) == IF n % 2 = 1 THEN 0 ELSE 1 + TrailingZeros(n \div 2)

\* pub type KernelGranule = TranslationGranule<{ 64 * 1024 }>;
KernelGranuleSIZE == 64 * 1024

\* TranslationGranule::SHIFT
KernelGranuleSHIFT == TrailingZeros(KernelGranuleSIZE)

\* usize >> n
ShiftRight(x, n) == x \div Pow2(n)

----------------------------------------------------------------------------
(* Inputs reported by the linker / board *)

AlignedStarts == {i * KernelGranuleSIZE : i \in 1..MaxStartPage}
UnalignedStarts == {KernelGranuleSIZE + KernelGranuleSIZE \div 2}
StartAddrs == AlignedStarts \cup UnalignedStarts

MultipleSizes == {i * KernelGranuleSIZE : i \in 0..MaxSizePages}
OddSizes == {KernelGranuleSIZE + 4464, KernelGranuleSIZE \div 2}
Sizes == MultipleSizes \cup OddSizes

Segment == [start : StartAddrs, size : Sizes]
Layouts == [stack : Segment, ro : Segment, data : Segment]

EndAddrs == {p * KernelGranuleSIZE + o : p \in 0..MaxEndPage,
                 o \in {0, 1, KernelGranuleSIZE \div 2, KernelGranuleSIZE - 1}}

\* super::virt_boot_core_stack_start(), super::boot_core_stack_size(), ...
virt_boot_core_stack_start == layout.stack.start
boot_core_stack_size == layout.stack.size
virt_ro_start == layout.ro.start
ro_size == layout.ro.size
virt_data_start == layout.data.start
data_size == layout.data.size
phys_addr_space_end == physEnd

----------------------------------------------------------------------------
(* PageSliceDescriptor<ATYPE> *)

Panicked == [panic |-> TRUE]
Returned(v) == [panic |-> FALSE, value |-> v]

\* PageSliceDescriptor::from_addr(start, num_pages)
from_addr(kind, start, num_pages) ==
    [kind |-> kind, start |-> start, num_pages |-> num_pages]

start_addr(d) == d.start
desc_size(d) == d.num_pages * KernelGranuleSIZE
end_addr(d) == d.start + desc_size(d)
end_addr_inclusive(d) == d.start + (desc_size(d) - 1)
contains(d, addr) == start_addr(d) <= addr /\ addr <= end_addr_inclusive(d)

\* From<PageSliceDescriptor<Virtual>> for PageSliceDescriptor<Physical>
into(d) == [kind |-> "Physical", start |-> d.start, num_pages |-> d.num_pages]

\* the page addresses a descriptor spans
PagesOf(d) == {d.start + i * KernelGranuleSIZE : i \in 0..(d.num_pages - 1)}

----------------------------------------------------------------------------
(* Private code of bsp::memory::mmu *)

size_to_num_pages_truncating(size) ==
    IF ~(size > 0) THEN Panicked
    ELSE Returned(ShiftRight(size, KernelGranuleSHIFT))

size_to_num_pages_shift_off_by_one(size) ==
    IF ~(size > 0) THEN Panicked
    ELSE IF ~(size % KernelGranuleSIZE = 0) THEN Panicked
    ELSE Returned(ShiftRight(size, KernelGranuleSHIFT - 1))

size_to_num_pages(size) ==
    IF ~(size > 0) THEN Panicked
    ELSE IF ~(size % KernelGranuleSIZE = 0) THEN Panicked
    ELSE Returned(ShiftRight(size, KernelGranuleSHIFT))

virt_page_desc(start, size) ==
    LET num_pages == size_to_num_pages(size)
    IN  IF num_pages.panic THEN Panicked
        ELSE Returned(from_addr("Virtual", start, num_pages.value))

virt_stack_page_desc == virt_page_desc(virt_boot_core_stack_start, boot_core_stack_size)
virt_ro_page_desc == virt_page_desc(virt_ro_start, ro_size)
virt_data_page_desc == virt_page_desc(virt_data_start, data_size)

phys_of(v) == IF v.panic THEN Panicked ELSE Returned(into(v.value))

phys_stack_page_desc_of_ro == phys_of(virt_ro_page_desc)

phys_stack_page_desc == phys_of(virt_stack_page_desc)
phys_ro_page_desc == phys_of(virt_ro_page_desc)
phys_data_page_desc == phys_of(virt_data_page_desc)

----------------------------------------------------------------------------
(* Public code of bsp::memory::mmu *)

kernel_translation_tables == KERNEL_TABLES

\* common::align_down(value, alignment), alignment a power of two
align_down(value, alignment) == value - (value % alignment)

phys_addr_space_end_page_shift ==
    align_down(phys_addr_space_end, KernelGranuleSHIFT)

phys_addr_space_end_page ==
    align_down(phys_addr_space_end, KernelGranuleSIZE)

\* AttributeFields of the three calls
AttrStack == [mem_attributes |-> "CacheableDRAM", acc_perms |-> "ReadWrite",
              execute_never |-> TRUE]
AttrRO_execute_never == [mem_attributes |-> "CacheableDRAM",
                         acc_perms |-> "ReadOnly", execute_never |-> TRUE]
AttrRO == [mem_attributes |-> "CacheableDRAM", acc_perms |-> "ReadOnly",
           execute_never |-> FALSE]
AttrData == [mem_attributes |-> "CacheableDRAM", acc_perms |-> "ReadWrite",
             execute_never |-> TRUE]

\* The first k page entries that kernel_map_pages_at writes for a region.
EntriesWritten(tables, virt, phys, attr, k) ==
    LET new == {virt.start + i * KernelGranuleSIZE : i \in 0..(k - 1)}
    IN  [a \in (DOMAIN tables) \cup new |->
            IF a \in new
            THEN [phys |-> phys.start + (a - virt.start), attr |-> attr]
            ELSE tables[a]]

\* generic_mmu::kernel_map_pages_at(name, virt_pages, phys_pages, attr):
\* either writes every page of the region and returns Ok, or returns an
\* error, having written some proper prefix of the region's pages.
kernel_map_pages_at(name, virt, phys, attr, ok, k) ==
    /\ k \in 0..virt.num_pages
    /\ ok = (k = virt.num_pages)
    /\ KERNEL_TABLES' = EntriesWritten(kernel_translation_tables, virt, phys, attr, k)
    /\ calls' = Append(calls, [name |-> name, virt |-> virt, phys |-> phys,
                               attr |-> attr, ok |-> ok])

\* the `?` after each call
QuestionMarkIgnored(ok, next) == next

QuestionMark(ok, next) == IF ok THEN next ELSE "err"

\* One call of kernel_map_binary(): the argument expressions are evaluated
\* (either may panic), then the engine is called and its error propagated.
MapStep(here, name, virt, phys, attr, next) ==
    /\ pc = here
    /\ UNCHANGED <<layout, testAligned, testOverlaps, physEnd, endPage>>
    /\ IF virt.panic \/ phys.panic
       THEN /\ pc' = "panic"
            /\ UNCHANGED <<KERNEL_TABLES, calls, result>>
       ELSE \E k \in 0..virt.value.num_pages :
            LET ok == (k = virt.value.num_pages) IN
            /\ kernel_map_pages_at(name, virt.value, phys.value, attr, ok, k)
            /\ pc' = QuestionMark(ok, next)
            /\ result' = IF pc' = "ok" THEN "Ok"
                         ELSE IF pc' = "err" THEN "Err" ELSE result

MapROMapsData ==
    MapStep("ro", "Kernel data and bss", virt_data_page_desc,
            phys_data_page_desc, AttrData, "data")

MapStack ==
    MapStep("stack", "Kernel boot-core stack", virt_stack_page_desc,
            phys_stack_page_desc, AttrStack, "ro")

MapRO ==
    MapStep("ro", "Kernel code and RO data", virt_ro_page_desc,
            phys_ro_page_desc, AttrRO, "data")

MapData ==
    MapStep("data", "Kernel data and bss", virt_data_page_desc,
            phys_data_page_desc, AttrData, "ok")

kernel_map_binary == MapStack \/ MapRO \/ MapData

----------------------------------------------------------------------------
(* Unit tests of bsp::memory::mmu *)

SectionIsAlignedInclusiveEnd(d) ==
    /\ start_addr(d) % KernelGranuleSIZE = 0
    /\ end_addr_inclusive(d) % KernelGranuleSIZE = 0
    /\ end_addr_inclusive(d) >= start_addr(d)

\* the three assertions made for one section
SectionIsAligned(d) ==
    /\ start_addr(d) % KernelGranuleSIZE = 0
    /\ end_addr(d) % KernelGranuleSIZE = 0
    /\ end_addr(d) >= start_addr(d)

\* the loop over [virt_stack_page_desc, virt_ro_page_desc, virt_data_page_desc]
RECURSIVE AlignedLoop(_)
AlignedLoop(fns) ==
    IF fns = <<>> THEN "pass"
    ELSE IF Head(fns).panic THEN "panic"
    ELSE IF ~SectionIsAligned(Head(fns).value) THEN "fail"
    ELSE AlignedLoop(Tail(fns))

virt_mem_layout_sections_are_64KiB_aligned ==
    /\ testAligned = "not_run"
    /\ testAligned' = AlignedLoop(<<virt_stack_page_desc, virt_ro_page_desc,
                                    virt_data_page_desc>>)
    /\ UNCHANGED <<layout, pc, KERNEL_TABLES, calls, result, testOverlaps,
                   physEnd, endPage>>

RangesPassOneWay(first_range, second_range) ==
    /\ ~contains(first_range, start_addr(second_range))
    /\ ~contains(first_range, end_addr_inclusive(second_range))

\* the four assertions made for one pair of ranges
RangesPass(first_range, second_range) ==
    /\ ~contains(first_range, start_addr(second_range))
    /\ ~contains(first_range, end_addr_inclusive(second_range))
    /\ ~contains(second_range, start_addr(first_range))
    /\ ~contains(second_range, end_addr_inclusive(first_range))

\* for (i, first_range) in layout.iter().enumerate()
\*     for second_range in layout.iter().skip(i + 1)
OverlapLoop(ranges) ==
    IF \A i \in 1..Len(ranges) : \A j \in (i + 1)..Len(ranges) :
           RangesPass(ranges[i], ranges[j])
    THEN "pass" ELSE "fail"

virt_mem_layout_has_no_overlaps ==
    /\ testOverlaps = "not_run"
    /\ testOverlaps' =
         IF virt_stack_page_desc.panic \/ virt_ro_page_desc.panic
               \/ virt_data_page_desc.panic
         THEN "panic"
         ELSE OverlapLoop(<<virt_stack_page_desc.value, virt_ro_page_desc.value,
                            virt_data_page_desc.value>>)
    /\ UNCHANGED <<layout, pc, KERNEL_TABLES, calls, result, testAligned,
                   physEnd, endPage>>

\* a caller takes the pointer to the last physical page
CallPhysAddrSpaceEndPage ==
    /\ ~endPage.called
    /\ endPage' = [called |-> TRUE, ptr |-> phys_addr_space_end_page]
    /\ UNCHANGED <<layout, pc, KERNEL_TABLES, calls, result, testAligned,
                   testOverlaps, physEnd>>

----------------------------------------------------------------------------
(* Specifications *)

EmptyTables == [a \in {} |-> 0]

\* the layout of the end-to-end scenario
ScenarioLayout ==
    [stack |-> [start |-> KernelGranuleSIZE, size |-> KernelGranuleSIZE],
     ro    |-> [start |-> 2 * KernelGranuleSIZE, size |-> 2 * KernelGranuleSIZE],
     data  |-> [start |-> 4 * KernelGranuleSIZE, size |-> KernelGranuleSIZE]]

InitCommon ==
    /\ pc = "stack"
    /\ KERNEL_TABLES = EmptyTables
    /\ calls = <<>>
    /\ result = "none"
    /\ testAligned = "not_run"
    /\ testOverlaps = "not_run"
    /\ endPage = [called |-> FALSE, ptr |-> 0]

\* boot: kernel_map_binary() runs once on the layout the linker produced
Init ==
    /\ layout \in Layouts
    /\ physEnd = Pow2(30) - 1
    /\ InitCommon

Next == MapStack \/ MapRO \/ MapData

Spec == Init /\ [][Next]_vars

\* the test kernel: the unit tests run on the layout
NextTests ==
    \/ virt_mem_layout_sections_are_64KiB_aligned
    \/ virt_mem_layout_has_no_overlaps

SpecTests == Init /\ [][NextTests]_vars

\* phys_addr_space_end_page() for the end addresses a board may report
InitEnd ==
    /\ layout = ScenarioLayout
    /\ physEnd \in EndAddrs
    /\ InitCommon

NextEnd == CallPhysAddrSpaceEndPage

SpecEnd == InitEnd /\ [][NextEnd]_vars

----------------------------------------------------------------------------
(* Vocabulary of the properties, stated on the linker's segments directly *)

G == KernelGranuleSIZE

Segs == {layout.stack, layout.ro, layout.data}

\* the segment a call's label names
SegNamed(name) ==
    IF name = "Kernel boot-core stack" THEN layout.stack
    ELSE IF name = "Kernel code and RO data" THEN layout.ro
    ELSE layout.data

CallOrder == <<"Kernel boot-core stack", "Kernel code and RO data",
               "Kernel data and bss">>

BadSize(size) == size = 0 \/ size % G # 0
GoodSeg(seg) == seg.start % G = 0 /\ ~BadSize(seg.size)

\* page addresses of a segment of accepted size
SegPages(seg) == {seg.start + i * G : i \in 0..((seg.size \div G) - 1)}

\* the address ranges [start, start + size) share no address
SegDisjoint(a, b) == a.start + a.size <= b.start \/ b.start + b.size <= a.start

LayoutDisjoint ==
    /\ SegDisjoint(layout.stack, layout.ro)
    /\ SegDisjoint(layout.stack, layout.data)
    /\ SegDisjoint(layout.ro, layout.data)

Triple(mem, acc, xn) ==
    [mem_attributes |-> mem, acc_perms |-> acc, execute_never |-> xn]

----------------------------------------------------------------------------
(* Properties *)

\* C1: when kernel_map_binary has returned Ok, the pages mapped in the
\* translation table are exactly the pages of the three segments (nothing
\* else is mapped), the three calls carried (CacheableDRAM, ReadWrite, XN),
\* (CacheableDRAM, ReadOnly, executable), (CacheableDRAM, ReadWrite, XN) in
\* that order, and, the three regions being pairwise disjoint, every page of
\* a region carries that region's attribute triple.
C1_MappedExactlyThreeRegions ==
    pc = "ok" =>
      /\ result = "Ok"
      /\ DOMAIN KERNEL_TABLES =
           SegPages(layout.stack) \cup SegPages(layout.ro) \cup SegPages(layout.data)
      /\ Len(calls) = 3
      /\ calls[1].attr = Triple("CacheableDRAM", "ReadWrite", TRUE)
      /\ calls[2].attr = Triple("CacheableDRAM", "ReadOnly", FALSE)
      /\ calls[3].attr = Triple("CacheableDRAM", "ReadWrite", TRUE)
      /\ LayoutDisjoint =>
           /\ \A p \in SegPages(layout.stack) :
                KERNEL_TABLES[p].attr = Triple("CacheableDRAM", "ReadWrite", TRUE)
           /\ \A p \in SegPages(layout.ro) :
                KERNEL_TABLES[p].attr = Triple("CacheableDRAM", "ReadOnly", FALSE)
           /\ \A p \in SegPages(layout.data) :
                KERNEL_TABLES[p].attr = Triple("CacheableDRAM", "ReadWrite", TRUE)

\* the end-to-end scenario has returned Ok with its four pages mapped
C1_Witness ==
    /\ layout = ScenarioLayout
    /\ pc = "ok"
    /\ Cardinality(DOMAIN KERNEL_TABLES) = 4
    /\ KERNEL_TABLES[3 * G].attr = Triple("CacheableDRAM", "ReadOnly", FALSE)
    /\ KERNEL_TABLES[4 * G].attr = Triple("CacheableDRAM", "ReadWrite", TRUE)

\* C2: for every size that is a positive multiple of the granule,
\* size_to_num_pages returns size >> 16, a positive page count with
\* page_count * granule = size; the descriptors handed to the mapping engine
\* carry exactly that count.
C2_PageCountExact ==
    /\ \A seg \in Segs :
         (seg.size > 0 /\ seg.size % G = 0) =>
            /\ ~size_to_num_pages(seg.size).panic
            /\ size_to_num_pages(seg.size).value = seg.size \div 65536
            /\ size_to_num_pages(seg.size).value * G = seg.size
            /\ size_to_num_pages(seg.size).value > 0
    /\ \A i \in 1..Len(calls) :
         calls[i].virt.num_pages * G = SegNamed(calls[i].name).size

C2_Witness ==
    /\ Len(calls) >= 2
    /\ layout.ro.size = 2 * G
    /\ calls[2].virt.num_pages = 2

\* C3: size_to_num_pages panics exactly for size 0 and for sizes that are
\* not a multiple of the granule (70000 among them) and never returns a
\* truncated count; kernel_map_binary then panics without a return value,
\* and the mapping engine is never called for a region of such a size.
C3_PanicOnBadSize ==
    /\ \A seg \in Segs : size_to_num_pages(seg.size).panic <=> BadSize(seg.size)
    /\ \A i \in 1..Len(calls) : ~BadSize(SegNamed(calls[i].name).size)
    /\ pc = "panic" =>
         /\ result = "none"
         /\ Len(calls) < 3
         /\ BadSize(SegNamed(CallOrder[Len(calls) + 1]).size)
    /\ result # "none" =>
         \A i \in 1..Len(calls) : ~BadSize(SegNamed(CallOrder[i]).size)
    /\ result = "Ok" => \A seg \in Segs : ~BadSize(seg.size)

\* the stack is 70000 bytes: kernel_map_binary has panicked before any call
C3_Witness ==
    /\ layout.stack.size = 70000
    /\ pc = "panic"
    /\ calls = <<>>
    /\ result = "none"

\* C4: a failed engine call is always the last call made: kernel_map_binary
\* has returned the error, no later region has been passed to the engine,
\* the pages of the regions inserted before stay mapped, and Ok is never
\* returned after a failed call.
C4_ErrorPropagated ==
    /\ (\E i \in 1..Len(calls) : ~calls[i].ok) =>
         /\ pc = "err"
         /\ result = "Err"
         /\ ~calls[Len(calls)].ok
         /\ \A i \in 1..(Len(calls) - 1) : calls[i].ok
    /\ pc = "err" =>
         /\ ~calls[Len(calls)].ok
         /\ \A i \in 1..(Len(calls) - 1) :
              SegPages(SegNamed(calls[i].name)) \subseteq DOMAIN KERNEL_TABLES
    /\ result = "Ok" => \A i \in 1..Len(calls) : calls[i].ok

\* the engine failed for the read-only region after the stack was inserted
C4_Witness ==
    /\ pc = "err"
    /\ Len(calls) = 2
    /\ calls[1].ok
    /\ ~calls[2].ok
    /\ layout.stack.start \in DOMAIN KERNEL_TABLES

\* C5: the engine is called for the boot-core stack, then for code and RO
\* data, then for data and bss: the calls made so far are always a prefix of
\* that order, each made after the one before returned Ok, each for its own
\* region, and a run that returned Ok made exactly the three.
C5_ThreeCallsInOrder ==
    /\ Len(calls) <= 3
    /\ \A i \in 1..Len(calls) :
         /\ calls[i].name = CallOrder[i]
         /\ calls[i].virt.start = SegNamed(CallOrder[i]).start
         /\ i < Len(calls) => calls[i].ok
    /\ pc = "ok" => Len(calls) = 3 /\ \A i \in 1..3 : calls[i].ok

C5_Witness ==
    /\ pc = "ok"
    /\ Len(calls) = 3
    /\ layout.stack.start # layout.ro.start
    /\ layout.ro.start # layout.data.start

\* C7: a virtual descriptor built from a granule-aligned start address and a
\* size accepted by size_to_num_pages starts and ends on a granule boundary,
\* its end (start + page_count * granule) is not below its start, and the
\* alignment test passes for the layouts in which all three are so built.
C7_DescriptorsAligned ==
    /\ \A seg \in Segs :
         GoodSeg(seg) =>
           LET d == virt_page_desc(seg.start, seg.size) IN
            /\ ~d.panic
            /\ d.value.start % G = 0
            /\ (d.value.start + d.value.num_pages * G) % G = 0
            /\ d.value.start + d.value.num_pages * G >= d.value.start
            /\ d.value.start + d.value.num_pages * G = seg.start + seg.size
    /\ testAligned = "pass" => \A seg \in Segs : GoodSeg(seg)
    /\ (testAligned # "not_run" /\ \A seg \in Segs : GoodSeg(seg)) =>
         testAligned = "pass"

C7_Witness ==
    /\ layout = ScenarioLayout
    /\ testAligned = "pass"

\* C8: for a layout whose three descriptors can be built, the non-overlap
\* test passes exactly when the three address ranges are pairwise disjoint.
C8_OverlapTestExact ==
    (testOverlaps # "not_run" /\ \A seg \in Segs : ~BadSize(seg.size)) =>
       /\ testOverlaps \in {"pass", "fail"}
       /\ testOverlaps = "pass" <=> LayoutDisjoint

\* read-only (0x20000, 131072) against data (0x30000, 65536): the test failed
C8_Witness ==
    /\ layout.ro = [start |-> 131072, size |-> 131072]
    /\ layout.data = [start |-> 196608, size |-> 65536]
    /\ ~BadSize(layout.stack.size)
    /\ testOverlaps = "fail"

\* C9: in every call to the engine the physical descriptor has the start
\* address and the page count of the virtual descriptor of the same call,
\* which is the descriptor of the region the call names.
C9_PhysIsVirtRetagged ==
    \A i \in 1..Len(calls) :
       /\ calls[i].virt.kind = "Virtual"
       /\ calls[i].phys.kind = "Physical"
       /\ calls[i].phys.start = calls[i].virt.start
       /\ calls[i].phys.num_pages = calls[i].virt.num_pages
       /\ calls[i].virt.start = SegNamed(calls[i].name).start

C9_Witness ==
    /\ Len(calls) = 3
    /\ layout.stack.start # layout.ro.start
    /\ layout.stack.size # layout.ro.size
    /\ calls[1].phys.start = layout.stack.start

\* C10: phys_addr_space_end_page returns the end address E of the physical
\* address space aligned down to the granule: R mod granule = 0 and
\* R <= E < R + granule.
C10_EndPageAlignedDown ==
    endPage.called =>
       /\ endPage.ptr % G = 0
       /\ endPage.ptr <= physEnd
       /\ physEnd < endPage.ptr + G

C10_Witness ==
    /\ endPage.called
    /\ physEnd % G # 0
    /\ endPage.ptr > 0
    /\ endPage.ptr < physEnd

====
